---- MODULE Spec2Model ----
(***************************************************************************)
(* Gmail attachment downloader: the OAuth token lifecycle of GmailAPI      *)
(* (src/gmail_oauth.py) and the bulk download of gmail_connect             *)
(* (src/app.py), as a state machine.                                       *)
(*                                                                         *)
(* The web handlers of src/app.py share ONE module-level GmailAPI object   *)
(* (app.py:35) and one token file.  Handlers that make no loop over        *)
(* provider calls are one action each; the bulk download is a process      *)
(* whose position (dl.pc) advances by one provider or file-system call     *)
(* per step.                                                               *)
(***************************************************************************)
EXTENDS Integers, Sequences, FiniteSets, TLC

\* ------------------------------------------------------------------ bounds
MaxState == 2       \* distinct anti-forgery state values the provider flow may draw
MaxTok   == 2       \* access tokens the provider may issue in one behaviour
MaxClock == 1       \* seconds the wall clock may advance in one behaviour
MaxMsgs  == 2       \* messages a search may return
MaxRuns  == 1       \* bulk downloads started in one behaviour
NumUsers == 2       \* logged-in application users
MaxUris  == 2       \* redirect URIs a client-registration document may list
MaxNameLen == 3     \* length of the short file names the sanitizer is tried on

Users       == 1..NumUsers
StateTokens == 1..MaxState
None        == 0            \* Python None for a state value

\* ------------------------------------------------------------- credentials
\* google.oauth2.credentials.Credentials: an access token (numbered by issue),
\* whether a refresh token came with it, and the mail account it opens, named
\* by the application user whose callback obtained the grant.
NoCred == [tok |-> 0, refresh |-> FALSE, by |-> 0]
Cred(t, r, o) == [tok |-> t, refresh |-> r, by |-> o]

\* token.pickle on disk: absent, a complete pickle of a credential, or a
\* truncated / partly written pickle.
NoFile      == [st |-> "none", cred |-> NoCred]
TornFile    == [st |-> "torn", cred |-> NoCred]
FileOf(c)   == [st |-> "ok",   cred |-> c]

VARIABLES
    tokenFile,    \* content of self.token_file
    creds,        \* gmail_api.creds   (NoCred = None)
    service,      \* gmail_api.service ("none" | "built")
    session,      \* per user: Flask session keys oauth_state, gmail_authenticated
    expiredToks,  \* access tokens whose expiry lies in the past
    nextTok,      \* next access token the provider will issue
    now,          \* wall clock, in whole seconds (strftime('%Y%m%d%H%M%S'))
    mailbox,      \* the provider's answer to the search: sequence of messages
    dl,           \* the running bulk download (gmail_connect POST), its position
    dbPending,    \* db.session of the running request: records added, not committed
    dbRows,       \* committed Attachment rows, in insert order
    files,        \* attachment folder: set of [path, by, whole]
    writeLog,     \* attachments in the order their bytes were written
    runs,         \* bulk downloads started so far
    clientFile,   \* the client-registration document (self.credentials_file)
    authUrl,      \* the authorization URL the user was last sent to: the redirect
                  \* target gmail_auth asked for and the one the URL carries
    ev            \* what the last handler or provider-facing step did

vars == <<tokenFile, creds, service, session, expiredToks, nextTok, now, mailbox,
          dl, dbPending, dbRows, files, writeLog, runs, clientFile, authUrl, ev>>

\* --------------------------------------------------------- last-step record
\* op       the handler or step that ran last
\* result   "ok" or the exception / outcome it ended with
\* expected, got   the session's oauth_state and the state in the callback URL
\* exchanged       the token endpoint was called
\* net      provider requests (token, mail API, revocation) the step issued
\* load     what pickle.load saw: "-" (not called), "none", "ok", "torn"
\* refresh  the refresh exchange: "-" (not attempted), "ok", "fail"
\* revoke   revoke_token(): "-" (not called), "true", "false"
\* requested, redirect   the redirect target the handler passed (url_for of the
\*          callback route) and the one its Flow was built with
\* api      the mail API's answer to the step's request: "-" (none sent), "ok",
\*          "HttpError", "error" (any other exception, e.g. a transport error)
NoEv == [op |-> "init", user |-> 0, result |-> "ok", expected |-> None, got |-> None,
         exchanged |-> FALSE, net |-> 0, load |-> "-", refresh |-> "-",
         revoke |-> "-", api |-> "-", requested |-> "", redirect |-> ""]

\* --------------------------------------------------- GmailAPI.authenticate
\* The refresh test as it would be if expiry were not looked at.
NeedsRefreshAlways(c) == c.refresh

\* creds.expired and creds.refresh_token
NeedsRefresh(c) == c.tok \in expiredToks /\ c.refresh

\* Outcomes the refresh exchange may have (the provider issues at most MaxTok tokens).
RefreshOutcomes == IF nextTok <= MaxTok THEN {"ok", "fail"} ELSE {"fail"}

\* authenticate() as it would be if a failed refresh were swallowed.
AuthResultSwallow(ref) ==
    CASE tokenFile.st = "none" -> "FileNotFoundError"
      [] tokenFile.st = "torn" -> "UnpicklingError"
      [] OTHER -> "ok"

\* authenticate() as it would be if a missing token file were not an error.
AuthResultNoFileOk(ref) ==
    CASE tokenFile.st = "torn" -> "UnpicklingError"
      [] OTHER -> IF tokenFile.st = "ok" /\ NeedsRefresh(tokenFile.cred) /\ ref = "fail"
                  THEN "RefreshError" ELSE "ok"

\* What authenticate() ends with: the service, or the exception it raises.
AuthResult(ref) ==
    CASE tokenFile.st = "none" -> "FileNotFoundError"
      [] tokenFile.st = "torn" -> "UnpicklingError"
      [] OTHER -> IF NeedsRefresh(tokenFile.cred) /\ ref = "fail"
                  THEN "RefreshError" ELSE "ok"

\* The credential authenticate() holds when it returns: the loaded one,
\* refreshed in place (new access token, same refresh token) if it was expired.
AuthCreds(ref) ==
    IF NeedsRefresh(tokenFile.cred) THEN Cred(nextTok, TRUE, tokenFile.cred.by)
    ELSE tokenFile.cred

AuthLoad == tokenFile.st

AuthRefresh(ref) ==
    IF tokenFile.st = "ok" /\ NeedsRefresh(tokenFile.cred) THEN ref ELSE "-"

\* authenticate(): load the pickle, refresh if expired, keep creds and service.
\* Nothing is written back to the token file.
authenticate(ref) ==
    /\ IF AuthResult(ref) = "ok"
       THEN /\ creds' = AuthCreds(ref)
            /\ service' = "built"
            /\ nextTok' = IF AuthRefresh(ref) = "ok" THEN nextTok + 1 ELSE nextTok
       ELSE UNCHANGED <<creds, service, nextTok>>
    /\ UNCHANGED tokenFile

\* `if not self.service: self.authenticate()` at the head of get_messages and
\* get_message_details.
EnsureService(ref) ==
    IF service = "none" THEN authenticate(ref)
    ELSE UNCHANGED <<creds, service, nextTok, tokenFile>>

EnsureResult(ref)  == IF service = "none" THEN AuthResult(ref) ELSE "ok"
EnsureLoad         == IF service = "none" THEN AuthLoad ELSE "-"
EnsureRefresh(ref) == IF service = "none" THEN AuthRefresh(ref) ELSE "-"
EnsureNet(ref)     == IF EnsureRefresh(ref) = "-" THEN 0 ELSE 1

\* ------------------------------------------------------- redirect targets
\* A redirect URI is named by its host; "" is no URI.
Hosts == {"localhost", "127.0.0.1", "app.example"}
NoUri == ""

\* `'localhost' in u`
IsLocalhost(u) == u = "localhost"

\* The client-registration document: for each of the keys 'web' and
\* 'installed', whether the key is there with a 'redirect_uris' list, and the list.
NotListed     == [listed |-> FALSE, uris |-> <<>>]
Listed(uris)  == [listed |-> TRUE, uris |-> uris]
UriLists      == UNION {[1..n -> Hosts] : n \in 0..MaxUris}
ClientEntries == {NotListed} \cup {Listed(l) : l \in UriLists}
ClientFiles   == [web : ClientEntries, installed : ClientEntries]

\* The document of a deployment served under localhost.
DefaultClient == [web |-> Listed(<<"localhost">>), installed |-> NotListed]
ServedHosts   == {"localhost"}

\* get_authorization_url: the redirect_uri its Flow is built with.
AuthorizationRedirect(req, doc) ==
    LET registered == IF doc.web.listed THEN doc.web.uris
                      ELSE IF doc.installed.listed THEN doc.installed.uris
                      ELSE <<>>
        local     == {i \in DOMAIN registered : IsLocalhost(registered[i])}
        preferred == IF local = {} THEN registered[1]
                     ELSE registered[CHOOSE i \in local : \A j \in local : i <= j]
    IN  IF registered # <<>> /\ \A i \in DOMAIN registered : registered[i] # req
        THEN preferred ELSE req

\* fetch_token as it would be if the fallback were the first registered URI.
FetchRedirectFirst(req, doc) ==
    LET registered == IF doc.web.listed THEN doc.web.uris
                      ELSE IF doc.installed.listed THEN doc.installed.uris
                      ELSE <<>>
    IN  IF registered # <<>> /\ \A i \in DOMAIN registered : registered[i] # req
        THEN registered[1] ELSE req

\* fetch_token: the redirect_uri its Flow is built with.
FetchRedirect(req, doc) ==
    LET registered == IF doc.web.listed THEN doc.web.uris
                      ELSE IF doc.installed.listed THEN doc.installed.uris
                      ELSE <<>>
        local     == {i \in DOMAIN registered : IsLocalhost(registered[i])}
        preferred == IF local = {} THEN registered[1]
                     ELSE registered[CHOOSE i \in local : \A j \in local : i <= j]
    IN  IF registered # <<>> /\ \A i \in DOMAIN registered : registered[i] # req
        THEN preferred ELSE req

\* ------------------------------------------------------ authorization flow
\* gmail_auth: get_authorization_url draws a fresh random state; the handler
\* stores it in the session.  built = FALSE: the client secrets cannot be
\* read and the handler only flashes an error.
\*   req  url_for('oauth2callback', _external=True) of this request
GmailAuth(u, req, s, built) ==
    /\ session' = IF built THEN [session EXCEPT ![u].oauth_state = s] ELSE session
    /\ authUrl' = IF built
                  THEN [requested |-> req,
                        redirect |-> AuthorizationRedirect(req, clientFile)]
                  ELSE authUrl
    /\ ev' = [NoEv EXCEPT !.op = "gmail_auth", !.user = u,
                          !.result = IF built THEN "ok" ELSE "FileNotFoundError",
                          !.requested = req,
                          !.redirect = IF built THEN AuthorizationRedirect(req, clientFile)
                                       ELSE NoUri]
    /\ UNCHANGED <<tokenFile, creds, service, expiredToks, nextTok, now, mailbox,
                   dl, dbPending, dbRows, files, writeLog, runs, clientFile>>

\* The state check of flow.fetch_token(authorization_response=...), reached
\* with the Flow built from `state=state`: oauthlib compares only when the
\* expected state is truthy (`if state and params.get('state') != state`).
StateMismatch(expected, got) == expected # None /\ got # expected

\* What the provider and the disk do once the state check has passed:
\*   "nocode"      the callback URL carries no authorization code (or an error)
\*   "exch_fail"   the token endpoint refuses the code or cannot be reached
\*   "open_fail"   the exchange succeeds, open(token_file, 'wb') raises
\*   "dump_fail"   the exchange succeeds, pickle.dump raises after the open
\*   "ok", "ok_norefresh"   exchange and write succeed, with / without a refresh token
CallbackOutcomes == {"nocode", "exch_fail", "open_fail", "dump_fail", "ok", "ok_norefresh"}

\* fetch_token as it would be if a refused exchange still produced credentials.
FetchTokenResultLenient(expected, got, out) ==
    CASE StateMismatch(expected, got) -> "MismatchingStateError"
      [] out = "nocode"               -> "MissingCodeError"
      [] out \in {"open_fail", "dump_fail"} -> "SaveFailed"
      [] OTHER                        -> "ok"

\* fetch_token, as called by oauth2callback: what it ends with.
FetchTokenResult(expected, got, out) ==
    CASE StateMismatch(expected, got) -> "MismatchingStateError"
      [] out = "nocode"               -> "MissingCodeError"
      [] out = "exch_fail"            -> "ExchangeFailed"
      [] out \in {"open_fail", "dump_fail"} -> "SaveFailed"
      [] OTHER                        -> "ok"

\* The token file after `with open(self.token_file, 'wb') as token:
\* pickle.dump(creds, token)`: the open truncates the file before the dump
\* writes, so a dump that fails leaves a truncated or partial pickle.
SavedFile(old, c, out) ==
    CASE out = "open_fail" -> old
      [] out = "dump_fail" -> TornFile
      [] OTHER             -> FileOf(c)

\* oauth2callback: state = session.get('oauth_state'); fetch_token(url, state, ...)
\*   req  url_for('oauth2callback', _external=True) of this request
\*   got  state parameter of the callback URL (None: absent)
OAuth2Callback(u, req, got, out) ==
    LET expected == session[u].oauth_state
        res      == FetchTokenResult(expected, got, out)
        called   == res \in {"ExchangeFailed", "SaveFailed", "ok"}
        issued   == res \in {"SaveFailed", "ok"}
        c        == Cred(nextTok, out # "ok_norefresh", u)
    IN  /\ issued => nextTok <= MaxTok
        /\ tokenFile' = IF issued THEN SavedFile(tokenFile, c, out) ELSE tokenFile
        /\ nextTok' = IF issued THEN nextTok + 1 ELSE nextTok
        /\ creds' = IF res = "ok" THEN c ELSE creds
        /\ service' = IF res = "ok" THEN "built" ELSE service
        /\ session' = IF res = "ok"
                      THEN [session EXCEPT ![u].gmail_authenticated = TRUE]
                      ELSE session
        /\ ev' = [NoEv EXCEPT !.op = "oauth2callback", !.user = u, !.result = res,
                              !.expected = expected, !.got = got,
                              !.exchanged = called, !.net = IF called THEN 1 ELSE 0,
                              !.requested = req,
                              !.redirect = FetchRedirect(req, clientFile)]
        /\ UNCHANGED <<expiredToks, now, mailbox, dl, dbPending, dbRows, files,
                       writeLog, runs,
                   clientFile, authUrl>>

\* ------------------------------------------------------------ revoke_token
\* HTTP statuses of the revocation endpoint; NetError: requests.post raised.
NetError == 0
RevokeStatuses == {200, 400, 500, NetError}

\* `if not self.creds or not self.creds.refresh_token: return True`
RevokePosts(c) == c # NoCred /\ c.refresh

\* The status test as it would be if "already invalid" (400) were a failure.
RevokeConfirmed200(st) == st = 200

\* `if response.status_code in [200, 400]`
RevokeConfirmed(st) == st \in {200, 400}

\* The boolean revoke_token() returns.
RevokeResult(c, st) == IF RevokePosts(c) THEN RevokeConfirmed(st) ELSE TRUE

\* revoke_token() sets creds and service to None.
RevokeClears(c, st) == RevokePosts(c) /\ RevokeConfirmed(st)

\* ---------------------------------------------------------- file system
\* The attachment folder: at most one file per path.
WriteFile(fs, p, by, whole) ==
    {f \in fs : f.path # p} \cup {[path |-> p, by |-> by, whole |-> whole]}

RemoveFiles(fs, paths) == {f \in fs : f.path \notin paths}

RECURSIVE SelectRows(_, _)
\* rows of a sequence that are not owned by user u, order kept
SelectRows(rows, u) ==
    IF rows = <<>> THEN <<>>
    ELSE IF Head(rows).user = u THEN SelectRows(Tail(rows), u)
         ELSE <<Head(rows)>> \o SelectRows(Tail(rows), u)

RowPaths(rows, u) == {rows[i].filepath : i \in {j \in DOMAIN rows : rows[j].user = u}}

\* disconnect_gmail:
\*   st  status of the revocation endpoint, rm outcome of os.remove(token_file),
\*   c   outcome of db.session.commit()
DisconnectGmail(u, st, rm, c) ==
    LET called == creds # NoCred
        clears == called /\ RevokeClears(creds, st)
    IN  /\ creds' = IF clears THEN NoCred ELSE creds
        /\ service' = IF clears THEN "none" ELSE service
        /\ tokenFile' = IF tokenFile.st # "none" /\ rm = "ok" THEN NoFile ELSE tokenFile
        /\ files' = RemoveFiles(files, RowPaths(dbRows, u))
        /\ dbRows' = IF c = "ok" THEN SelectRows(dbRows, u) ELSE dbRows
        /\ session' = [session EXCEPT ![u].gmail_authenticated = FALSE]
        /\ ev' = [NoEv EXCEPT !.op = "disconnect_gmail", !.user = u,
                     !.revoke = IF ~called THEN "-"
                                ELSE IF RevokeResult(creds, st) THEN "true" ELSE "false",
                     !.net = IF called /\ RevokePosts(creds) THEN 1 ELSE 0]
        /\ UNCHANGED <<expiredToks, nextTok, now, mailbox, dl, dbPending, writeLog, runs,
                   clientFile, authUrl>>

\* rows without the i-th
RemoveAt(rows, i) == SubSeq(rows, 1, i - 1) \o SubSeq(rows, i + 1, Len(rows))

\* delete (POST /delete/<attach_id>): inside one try, os.remove if the file
\* exists, then db.session.delete and commit; any exception rolls back.
\*   i   the row Attachment.query.get_or_404 finds
\*   rm  outcome of os.remove, c outcome of db.session.commit()
Delete(u, i, rm, c) ==
    LET row    == dbRows[i]
        owner  == row.user = u
        exists == \E f \in files : f.path = row.filepath
        raised == exists /\ rm = "fail"
    IN  /\ i \in DOMAIN dbRows
        /\ exists \/ rm = "ok"
        /\ files' = IF owner /\ exists /\ rm = "ok"
                    THEN RemoveFiles(files, {row.filepath}) ELSE files
        /\ dbRows' = IF owner /\ ~raised /\ c = "ok" THEN RemoveAt(dbRows, i) ELSE dbRows
        /\ ev' = [NoEv EXCEPT !.op = "delete", !.user = u,
                     !.result = IF ~owner THEN "denied"
                                ELSE IF raised \/ c # "ok" THEN "rollback" ELSE "ok"]
        /\ UNCHANGED <<tokenFile, creds, service, session, expiredToks, nextTok, now,
                       mailbox, dl, dbPending, writeLog, runs,
                   clientFile, authUrl>>

\* ------------------------------------------------------------ environment
\* The server process is started again: the module-level GmailAPI object is
\* constructed anew (no credential, no service); the token file, the database
\* and the cookie-held sessions stay.
Restart ==
    /\ dl.pc = "idle"
    /\ service # "none"
    /\ creds' = NoCred
    /\ service' = "none"
    /\ ev' = [NoEv EXCEPT !.op = "restart"]
    /\ UNCHANGED <<tokenFile, session, expiredToks, nextTok, now, mailbox, dl,
                   dbPending, dbRows, files, writeLog, runs,
                   clientFile, authUrl>>

\* The expiry of an access token that is on disk or in memory passes.
Expire(t) ==
    /\ t \in ({tokenFile.cred.tok, creds.tok} \ {0}) \ expiredToks
    /\ expiredToks' = expiredToks \cup {t}
    /\ UNCHANGED <<tokenFile, creds, service, session, nextTok, now, mailbox, dl,
                   dbPending, dbRows, files, writeLog, runs, ev,
                   clientFile, authUrl>>

\* One second passes.
Tick ==
    /\ now < MaxClock
    /\ now' = now + 1
    /\ UNCHANGED <<tokenFile, creds, service, session, expiredToks, nextTok, mailbox,
                   dl, dbPending, dbRows, files, writeLog, runs, ev,
                   clientFile, authUrl>>

\* ---------------------------------------------------------- clean_filename
\* File names are sequences of one-character strings.
NameLimit  == 255
Replaced   == {"<", ">", ":", "\"", "/", "|", "?", "*"}   \* the class [<>:"/\|?*]
Whitespace == {" ", "\t", "\n", "\r"}
Untitled   == <<"u", "n", "t", "i", "t", "l", "e", "d">>

\* re.sub(r'[<>:"/\|?*]', '_', filename)
ReplaceInvalid(s) == [i \in 1..Len(s) |-> IF s[i] \in Replaced THEN "_" ELSE s[i]]

\* re.sub(r'\s+', ' ', filename): of every run of whitespace the first
\* character stays, as a blank, and the rest of the run is dropped.
CollapseSpaces(s) ==
    LET marked == [i \in 1..Len(s) |->
                     [ch |-> s[i],
                      inRun |-> i > 1 /\ s[i] \in Whitespace /\ s[i - 1] \in Whitespace]]
        Keep(m) == ~m.inRun
        kept   == SelectSeq(marked, Keep)
    IN  [i \in 1..Len(kept) |-> IF kept[i].ch \in Whitespace THEN " " ELSE kept[i].ch]

RECURSIVE LStrip(_)
LStrip(s) == IF s # <<>> /\ Head(s) \in Whitespace THEN LStrip(Tail(s)) ELSE s

RECURSIVE RStrip(_)
RStrip(s) ==
    IF s # <<>> /\ s[Len(s)] \in Whitespace THEN RStrip(SubSeq(s, 1, Len(s) - 1)) ELSE s

\* str.strip()
Strip(s) == RStrip(LStrip(s))

\* Index of the last element of s that is in set cs, 0 if there is none.
LastIndex(s, cs) ==
    LET hits == {i \in 1..Len(s) : s[i] \in cs}
    IN  IF hits = {} THEN 0 ELSE CHOOSE i \in hits : \A j \in hits : j <= i

\* Where os.path.splitext cuts: the last dot, if it follows the last separator
\* and some character other than a dot stands between them; else Len(s) + 1.
SplitPoint(s) ==
    LET sep == LastIndex(s, {"/"})
        dot == LastIndex(s, {"."})
    IN  IF dot > sep /\ \E i \in (sep + 1)..(dot - 1) : s[i] # "."
        THEN dot ELSE Len(s) + 1

SplitName(s) == SubSeq(s, 1, SplitPoint(s) - 1)
SplitExt(s)  == SubSeq(s, SplitPoint(s), Len(s))

\* Python s[:k], k possibly negative.
Prefix(s, k) ==
    IF k >= 0 THEN SubSeq(s, 1, IF k < Len(s) THEN k ELSE Len(s))
    ELSE SubSeq(s, 1, IF Len(s) + k > 0 THEN Len(s) + k ELSE 0)

clean_filename(filename) ==
    IF filename = <<>> THEN Untitled
    ELSE LET stripped == Strip(CollapseSpaces(ReplaceInvalid(filename)))
             named    == IF stripped = <<>> THEN Untitled ELSE stripped
         IN  IF Len(named) > NameLimit
             THEN Prefix(SplitName(named), NameLimit - Len(SplitExt(named)))
                  \o SplitExt(named)
             ELSE named

\* ------------------------------------------------------------- the mailbox
\* A message part: its filename ("" = <<>>) and what its body carries:
\* "data" (inline payload), "ref" (attachmentId) or "none" (neither).
TextPart   == [filename |-> <<>>, body |-> "data"]
Inline(n)  == [filename |-> n, body |-> "data"]
ByRef(n)   == [filename |-> n, body |-> "ref"]
Bare(n)    == [filename |-> n, body |-> "none"]

\* A message: payload without 'parts' (the payload is the one candidate), or
\* a payload with direct child parts.
Single(p)  == [hasParts |-> FALSE, payload |-> p, parts |-> <<>>]
Multi(ps)  == [hasParts |-> TRUE, payload |-> TextPart, parts |-> ps]

NameAB == <<"a", ":", "b">>
NameA2 == <<"a", "/", "b">>
NameC  == <<"c">>

MessageShapes ==
    { Single(Inline(NameC)),
      Multi(<<TextPart, ByRef(NameAB)>>),
      Multi(<<Inline(NameAB), ByRef(NameA2)>>),
      Multi(<<Bare(NameC), Inline(NameC)>>) }

Mailboxes == UNION {[1..n -> MessageShapes] : n \in 0..MaxMsgs}

\* `parts = [payload] if 'parts' not in payload else payload['parts']`
Candidates(m) == IF m.hasParts THEN m.parts ELSE <<m.payload>>

\* ------------------------------------------------- gmail_connect (POST)
IdleDl == [pc |-> "idle", user |-> 0, mi |-> 0, pi |-> 0, ai |-> 0, atts |-> <<>>,
           downloaded |-> 0, errors |-> <<>>, failed |-> {}]

ApiOutcomes == {"ok", "HttpError", "error"}

\* The `for message in messages` loop moves on to the next message, or to the commit.
NextMessage(d) ==
    IF d.mi < Len(mailbox)
    THEN [d EXCEPT !.pc = "fetch", !.mi = d.mi + 1, !.pi = 0, !.ai = 0, !.atts = <<>>]
    ELSE [d EXCEPT !.pc = "commit", !.mi = 0, !.pi = 0, !.ai = 0, !.atts = <<>>]

\* `except Exception as e: errors.append(f"Error processing message: ..."); continue`
MessageError(d) ==
    NextMessage([d EXCEPT !.errors = Append(@, [kind |-> "message", msg |-> d.mi, part |-> 0])])

Failed(d, kind, part) ==
    [d EXCEPT !.failed = @ \cup {[kind |-> kind, msg |-> d.mi, part |-> part]}]

\* The handler up to the loop: search_messages_with_attachments -> get_messages.
GmailConnect(u, ref, api) ==
    LET auth == EnsureResult(ref)
        found == auth = "ok" /\ api = "ok" /\ mailbox # <<>>
    IN  /\ dl.pc = "idle"
        /\ runs < MaxRuns
        /\ ref \in RefreshOutcomes
        /\ EnsureService(ref)
        /\ runs' = IF found THEN runs + 1 ELSE runs
        /\ dl' = IF found THEN [IdleDl EXCEPT !.pc = "fetch", !.user = u, !.mi = 1]
                 ELSE IdleDl
        /\ ev' = [NoEv EXCEPT !.op = "search", !.user = u,
                     !.result = CASE auth # "ok" -> auth
                                  [] api = "error" -> "Error"
                                  [] ~found -> "NoEmails"
                                  [] OTHER -> "ok",
                     !.load = EnsureLoad, !.refresh = EnsureRefresh(ref),
                     !.api = IF auth = "ok" THEN api ELSE "-",
                     !.net = EnsureNet(ref) + (IF auth = "ok" THEN 1 ELSE 0)]
        /\ UNCHANGED <<session, expiredToks, now, mailbox, dbPending, dbRows, files,
                       writeLog,
                   clientFile, authUrl>>

\* get_message_details(message_id), the loop's first call for a message.
FetchMessage(ref, api) ==
    LET auth == EnsureResult(ref)
        d1 == CASE auth # "ok" \/ api = "error" -> MessageError(Failed(dl, "fetch", 0))
                [] api = "HttpError" -> NextMessage(Failed(dl, "fetch", 0))
                [] OTHER -> [dl EXCEPT !.pc = "attachments"]
    IN  /\ dl.pc = "fetch"
        /\ ref \in RefreshOutcomes
        /\ EnsureService(ref)
        /\ dl' = d1
        /\ ev' = [NoEv EXCEPT !.op = "get_message_details", !.user = dl.user,
                     !.result = IF auth # "ok" THEN auth
                                ELSE IF api = "ok" THEN "ok" ELSE api,
                     !.load = EnsureLoad, !.refresh = EnsureRefresh(ref),
                     !.api = IF auth = "ok" THEN api ELSE "-",
                     !.net = EnsureNet(ref) + (IF auth = "ok" THEN 1 ELSE 0)]
        /\ UNCHANGED <<session, expiredToks, now, mailbox, dbPending, dbRows, files,
                       writeLog, runs,
                   clientFile, authUrl>>

\* get_attachments(message_id) up to its part loop: it fetches the message again.
GetAttachments(ref, api) ==
    LET auth == EnsureResult(ref)
        d1 == CASE auth # "ok" \/ api = "error" -> MessageError(Failed(dl, "fetch", 0))
                [] api = "HttpError" -> NextMessage(Failed(dl, "fetch", 0))
                [] OTHER -> [dl EXCEPT !.pc = "extract", !.pi = 1, !.atts = <<>>]
    IN  /\ dl.pc = "attachments"
        /\ ref \in RefreshOutcomes
        /\ EnsureService(ref)
        /\ dl' = d1
        /\ ev' = [NoEv EXCEPT !.op = "get_attachments", !.user = dl.user,
                     !.result = IF auth # "ok" THEN auth
                                ELSE IF api = "ok" THEN "ok" ELSE api,
                     !.load = EnsureLoad, !.refresh = EnsureRefresh(ref),
                     !.api = IF auth = "ok" THEN api ELSE "-",
                     !.net = EnsureNet(ref) + (IF auth = "ok" THEN 1 ELSE 0)]
        /\ UNCHANGED <<session, expiredToks, now, mailbox, dbPending, dbRows, files,
                       writeLog, runs,
                   clientFile, authUrl>>

\* The descriptor list as it would be if each descriptor were put in front.
YieldFront(atts, info) == <<info>> \o atts

\* `attachments.append(attachment_info)`
Yield(atts, info) == Append(atts, info)

\* One turn of `for part in parts` in get_attachments, with
\* _extract_attachment_info for a part that has a filename.
\*   api  answer to attachments().get, sent only for a body with an attachmentId
ExtractPart(api) ==
    LET parts == Candidates(mailbox[dl.mi])
        part  == parts[dl.pi]
        named == part.filename # <<>>
        sends == named /\ part.body = "ref" /\ service # "none"
        \* self.service is None: AttributeError, which `except HttpError` lets through
        raises == named /\ part.body = "ref" /\ (service = "none" \/ api = "error")
        yields == named /\ (part.body # "ref" \/ (sends /\ api = "ok"))
        info  == [msg |-> dl.mi, part |-> dl.pi, filename |-> part.filename,
                  hasData |-> part.body # "none"]
        atts1 == IF yields THEN Yield(dl.atts, info) ELSE dl.atts
        d0    == IF named /\ ~yields THEN Failed(dl, "extract", dl.pi) ELSE dl
        d1    == IF raises THEN MessageError(d0)
                 ELSE IF dl.pi < Len(parts)
                      THEN [d0 EXCEPT !.pi = dl.pi + 1, !.atts = atts1]
                      ELSE IF atts1 = <<>> THEN NextMessage(d0)
                           ELSE [d0 EXCEPT !.pc = "materialize", !.pi = 0, !.ai = 1,
                                           !.atts = atts1]
    IN  /\ dl.pc = "extract"
        /\ sends \/ api = "ok"
        /\ dl' = d1
        /\ ev' = [NoEv EXCEPT !.op = "extract_part", !.user = dl.user,
                     !.result = IF raises THEN "error"
                                ELSE IF yields THEN "ok" ELSE "skipped",
                     !.api = IF sends THEN api ELSE "-",
                     !.net = IF sends THEN 1 ELSE 0]
        /\ UNCHANGED <<tokenFile, creds, service, session, expiredToks, nextTok, now,
                       mailbox, dbPending, dbRows, files, writeLog, runs,
                   clientFile, authUrl>>

\* The storage path: user folder, strftime('%Y%m%d%H%M%S') of the clock, cleaned name.
StoragePath(u, t, filename) == <<u, t, filename>>

\* download_attachment: True iff the bytes were decoded and written.
\*   wr  "ok" | "open_fail" (open raised) | "write_fail" (f.write raised)
DownloadOk(att, wr) == att.hasData /\ wr = "ok"

\* The folder after download_attachment: open(save_path, 'wb') truncates the
\* file; attachment_data['data'] raises KeyError before the file is opened.
DownloadFiles(fs, att, p, wr) ==
    IF att.hasData /\ wr \in {"ok", "write_fail"}
    THEN WriteFile(fs, p, <<att.msg, att.part>>, wr = "ok")
    ELSE fs

\* One turn of `for attachment_data in attachments`.
\*   wr  as above, or "mkdir_fail": os.makedirs raised
Materialize(wr) ==
    LET att  == dl.atts[dl.ai]
        name == clean_filename(att.filename)
        path == StoragePath(dl.user, now, name)
        ok   == DownloadOk(att, wr)
        row  == [user |-> dl.user, msg |-> att.msg, part |-> att.part,
                 filename |-> name, filepath |-> path]
        d0   == IF ok THEN [dl EXCEPT !.downloaded = @ + 1]
                ELSE [Failed(dl, "materialize", att.part)
                        EXCEPT !.errors = Append(@, [kind |-> "attachment",
                                                     msg |-> att.msg, part |-> att.part])]
        d1   == IF dl.ai < Len(dl.atts) THEN [d0 EXCEPT !.ai = dl.ai + 1]
                ELSE NextMessage(d0)
    IN  /\ dl.pc = "materialize"
        /\ att.hasData \/ wr \in {"ok", "mkdir_fail"}
        /\ IF wr = "mkdir_fail"
           THEN /\ dl' = MessageError(Failed(dl, "materialize", att.part))
                /\ UNCHANGED <<files, dbPending, writeLog>>
           ELSE /\ dl' = d1
                /\ files' = DownloadFiles(files, att, path, wr)
                /\ dbPending' = IF ok THEN Append(dbPending, row) ELSE dbPending
                /\ writeLog' = IF ok THEN Append(writeLog, <<att.msg, att.part>>)
                               ELSE writeLog
        /\ ev' = [NoEv EXCEPT !.op = "materialize", !.user = dl.user,
                     !.result = IF wr = "mkdir_fail" THEN "error"
                                ELSE IF ok THEN "ok" ELSE "false"]
        /\ UNCHANGED <<tokenFile, creds, service, session, expiredToks, nextTok, now,
                       mailbox, dbRows, runs,
                   clientFile, authUrl>>

\* db.session.commit() after the loop; on failure db.session.rollback().
Commit(c) ==
    /\ dl.pc = "commit"
    /\ dbRows' = IF c = "ok" THEN dbRows \o dbPending ELSE dbRows
    /\ dbPending' = <<>>
    /\ writeLog' = <<>>
    /\ dl' = IdleDl
    /\ ev' = [NoEv EXCEPT !.op = "commit", !.user = dl.user,
                          !.result = IF c = "ok" THEN "ok" ELSE "rollback"]
    /\ UNCHANGED <<tokenFile, creds, service, session, expiredToks, nextTok, now,
                   mailbox, files, runs,
                   clientFile, authUrl>>

\* ---------------------------------------------------------- specifications
Outcomes == {"ok", "fail"}

\* The handlers of the authorization flow and the token lifecycle.
AuthNext ==
    \/ \E u \in Users, req \in ServedHosts, s \in StateTokens, built \in BOOLEAN :
          GmailAuth(u, req, s, built)
    \/ \E u \in Users, req \in ServedHosts, got \in {None} \cup StateTokens,
          out \in CallbackOutcomes :
          OAuth2Callback(u, req, got, out)

\* The requests and environment steps both specifications share.
SharedNext ==
    \/ \E u \in Users, st \in RevokeStatuses, rm \in Outcomes, c \in Outcomes :
          DisconnectGmail(u, st, rm, c)
    \/ \E u \in Users, ref \in Outcomes, api \in ApiOutcomes : GmailConnect(u, ref, api)

\* The steps of a started bulk download.
BulkNext ==
    \/ Tick
    \/ \E ref \in Outcomes, api \in ApiOutcomes : FetchMessage(ref, api)
    \/ \E ref \in Outcomes, api \in ApiOutcomes : GetAttachments(ref, api)
    \/ \E api \in ApiOutcomes : ExtractPart(api)
    \/ \E wr \in {"ok", "open_fail", "write_fail", "mkdir_fail"} : Materialize(wr)
    \/ \E c \in Outcomes : Commit(c)
    \/ \E u \in Users, i \in DOMAIN dbRows, rm \in Outcomes, c \in Outcomes :
          Delete(u, i, rm, c)

\* The application right after start-up with no token file, and a mailbox in
\* which the search matches nothing: the authorization flow, the token file
\* and the held credential through every handler that touches them.
InitAuth ==
    /\ tokenFile = NoFile
    /\ creds = NoCred
    /\ service = "none"
    /\ session = [u \in Users |-> [oauth_state |-> None, gmail_authenticated |-> FALSE]]
    /\ expiredToks = {}
    /\ nextTok = 1
    /\ now = 0
    /\ mailbox = <<>>
    /\ dl = IdleDl
    /\ dbPending = <<>>
    /\ dbRows = <<>>
    /\ files = {}
    /\ writeLog = <<>>
    /\ runs = 0
    /\ clientFile = DefaultClient
    /\ authUrl = [requested |-> NoUri, redirect |-> NoUri]
    /\ ev = NoEv

EnvNext ==
    \/ \E t \in 1..MaxTok : Expire(t)
    \/ Restart

SpecAuth == InitAuth /\ [][AuthNext \/ SharedNext \/ EnvNext]_vars

\* The application right after start-up (GmailAPI.__init__: no credential, no
\* service) with the token file an earlier authorization left, or none, and
\* any mailbox: bulk downloads, with disconnect requests arriving in between.
InitBulk ==
    /\ tokenFile \in {NoFile, FileOf(Cred(1, TRUE, 1))}
    /\ creds = NoCred
    /\ service = "none"
    /\ session = [u \in Users |-> [oauth_state |-> None, gmail_authenticated |-> FALSE]]
    /\ expiredToks = {}
    /\ nextTok = 2
    /\ now = 0
    /\ mailbox \in Mailboxes
    /\ dl = IdleDl
    /\ dbPending = <<>>
    /\ dbRows = <<>>
    /\ files = {}
    /\ writeLog = <<>>
    /\ runs = 0
    /\ clientFile = DefaultClient
    /\ authUrl = [requested |-> NoUri, redirect |-> NoUri]
    /\ ev = NoEv

SpecBulk == InitBulk /\ [][SharedNext \/ BulkNext]_vars

\* ------------------------------------------- file names for clean_filename
\* Short names: every string of up to MaxNameLen characters over a letter, a
\* backslash, a colon, a blank and a dot.
NameChars  == {"a", "\\", ":", " ", "."}
ShortNames == UNION {[1..n -> NameChars] : n \in 1..MaxNameLen}

Repeat(ch, n) == [i \in 1..n |-> ch]
ExtTxt == <<".", "t", "x", "t">>

\* Long names: a base of letters just below, at and well above the length
\* limit, with no extension, a four-character one, or one that is itself
\* longer than the limit.
LongNames ==
    {Repeat("a", n) \o e :
        n \in {NameLimit - 4, NameLimit, NameLimit + 45},
        e \in {<<>>, ExtTxt, <<".">> \o Repeat("x", NameLimit + 1)}}

\* One bulk download of one message whose single attachment has the file
\* name under test; Materialize applies clean_filename to it.
InitClean ==
    /\ tokenFile = FileOf(Cred(1, TRUE, 1))
    /\ creds = NoCred
    /\ service = "none"
    /\ session = [u \in Users |-> [oauth_state |-> None, gmail_authenticated |-> FALSE]]
    /\ expiredToks = {}
    /\ nextTok = 2
    /\ now = 0
    /\ mailbox \in {<<Single(Inline(n))>> : n \in ShortNames \cup LongNames}
    /\ dl = IdleDl
    /\ dbPending = <<>>
    /\ dbRows = <<>>
    /\ files = {}
    /\ writeLog = <<>>
    /\ runs = 0
    /\ clientFile = DefaultClient
    /\ authUrl = [requested |-> NoUri, redirect |-> NoUri]
    /\ ev = NoEv

CleanNext ==
    \/ \E u \in Users, ref \in Outcomes, api \in ApiOutcomes : GmailConnect(u, ref, api)
    \/ \E ref \in Outcomes, api \in ApiOutcomes : FetchMessage(ref, api)
    \/ \E ref \in Outcomes, api \in ApiOutcomes : GetAttachments(ref, api)
    \/ \E api \in ApiOutcomes : ExtractPart(api)
    \/ \E wr \in {"ok", "open_fail", "write_fail", "mkdir_fail"} : Materialize(wr)
    \/ \E c \in Outcomes : Commit(c)

SpecClean == InitClean /\ [][CleanNext]_vars

\* The authorization flow up to the exchange request, which carries the
\* redirect target, under any client-registration document and with requests
\* arriving under any host.
InitRedirect ==
    /\ tokenFile = NoFile
    /\ creds = NoCred
    /\ service = "none"
    /\ session = [u \in Users |-> [oauth_state |-> None, gmail_authenticated |-> FALSE]]
    /\ expiredToks = {}
    /\ nextTok = 1
    /\ now = 0
    /\ mailbox = <<>>
    /\ dl = IdleDl
    /\ dbPending = <<>>
    /\ dbRows = <<>>
    /\ files = {}
    /\ writeLog = <<>>
    /\ runs = 0
    /\ clientFile \in ClientFiles
    /\ authUrl = [requested |-> NoUri, redirect |-> NoUri]
    /\ ev = NoEv

RedirectOutcomes == {"nocode", "exch_fail"}

RedirectNext ==
    \/ \E u \in Users, req \in Hosts, s \in StateTokens, built \in BOOLEAN :
          GmailAuth(u, req, s, built)
    \/ \E u \in Users, req \in Hosts, got \in {None} \cup StateTokens,
          out \in RedirectOutcomes :
          OAuth2Callback(u, req, got, out)

SpecRedirect == InitRedirect /\ [][RedirectNext]_vars

\* ==================================================================== claims

\* C1: a callback whose state differs from the state the session expects
\* (an empty expected state included) fails with a state mismatch and the
\* token endpoint is never called.
C1_MismatchNeverExchanges ==
    (ev.op = "oauth2callback" /\ ev.got # ev.expected)
        => (ev.result = "MismatchingStateError" /\ ~ev.exchanged)

\* C5: after authenticate() has refreshed an expired credential, the token
\* file holds the credential that is held in memory.
C5_RefreshIsPersisted ==
    (ev.refresh = "ok") => (tokenFile = FileOf(creds))

\* C9: no load of the token file ever sees a truncated or partial pickle.
C9_LoadNeverTorn == ev.load # "torn"

\* C10: once a callback has run against the state gmail_auth issued, a further
\* callback with the same state value, with no new gmail_auth in between, is
\* not accepted.
C10_SecondCallbackRejected ==
    [][(/\ ev.op = "oauth2callback"
        /\ ev.expected # None
        /\ ev.got = ev.expected
        /\ \E req \in Hosts, out \in CallbackOutcomes :
              OAuth2Callback(ev.user, req, ev.got, out))
       => ~ev'.exchanged]_vars

\* --- bulk download
Records == {dbPending[i] : i \in DOMAIN dbPending}

\* C2: every record of the running bulk download names a file that this
\* record's attachment wrote completely.
C2_RecordNamesWrittenFile ==
    \A r \in Records :
        \E f \in files : f.path = r.filepath /\ f.whole /\ f.by = <<r.msg, r.part>>

\* A failed item has an entry in the error list.
Counted(f) ==
    \E i \in DOMAIN dl.errors :
        /\ dl.errors[i].msg = f.msg
        /\ dl.errors[i].kind = "message" \/ dl.errors[i].part = f.part

\* Part p of message m was recorded, or it failed itself, or its message
\* could not be fetched.
Processed(m, p) ==
    \/ \E r \in Records : r.msg = m /\ r.part = p
    \/ \E f \in dl.failed : f.msg = m /\ (f.kind = "fetch" \/ f.part = p)

\* C3: at the end of the batch every failed item is in the error list, and
\* every part with a filename was processed unless it, or the fetch of its
\* message, failed.
C3_FailuresIsolatedAndCounted ==
    (dl.pc = "commit") =>
        /\ \A f \in dl.failed : Counted(f)
        /\ \A m \in DOMAIN mailbox :
              \A p \in DOMAIN Candidates(mailbox[m]) :
                  Candidates(mailbox[m])[p].filename # <<>> => Processed(m, p)

\* (message, part) a precedes (message, part) b in search order, then part order.
Precedes(a, b) == a[1] < b[1] \/ (a[1] = b[1] /\ a[2] < b[2])

\* C4: within one bulk download the bytes are written, and the records added,
\* in the order of the search result and, within a message, in part order.
C4_SearchThenPartOrder ==
    /\ \A i, j \in DOMAIN writeLog : i < j => Precedes(writeLog[i], writeLog[j])
    /\ \A i, j \in DOMAIN dbPending :
          i < j => Precedes(<<dbPending[i].msg, dbPending[i].part>>,
                            <<dbPending[j].msg, dbPending[j].part>>)
    /\ Len(writeLog) = Len(dbPending)
    /\ \A i \in DOMAIN dbPending : writeLog[i] = <<dbPending[i].msg, dbPending[i].part>>

C4_Witness ==
    /\ \E i, j \in DOMAIN dbPending : dbPending[i].msg < dbPending[j].msg
    /\ \E i, j \in DOMAIN dbPending :
          dbPending[i].msg = dbPending[j].msg /\ dbPending[i].part < dbPending[j].part

\* --- token lifecycle
\* C6: a failed refresh in authenticate() reaches the caller as RefreshError:
\* no search request is sent, no batch starts, and the expired credential with
\* its refresh token is still in the token file.
C6_RefreshFailureSurfaces ==
    (ev.refresh = "fail") =>
        /\ ev.result = "RefreshError"
        /\ ev.api = "-"
        /\ dl.pc = "idle"
        /\ tokenFile.st = "ok" /\ tokenFile.cred.refresh

C6_Witness == ev.op = "search" /\ ev.refresh = "fail"

\* A step of one of the three calls that need the service.
ServiceCall ==
    \/ \E u \in Users, ref \in Outcomes, api \in ApiOutcomes : GmailConnect(u, ref, api)
    \/ \E ref \in Outcomes, api \in ApiOutcomes : FetchMessage(ref, api)
    \/ \E ref \in Outcomes, api \in ApiOutcomes : GetAttachments(ref, api)

\* C7: with no token file and no credential in memory, search,
\* get_message_details and get_attachments raise FileNotFoundError and send
\* nothing to the provider.
C7_NoCredentialNoRequest ==
    [][(tokenFile.st = "none" /\ creds = NoCred /\ ServiceCall)
       => (ev'.result = "FileNotFoundError" /\ ev'.net = 0 /\ ev'.api = "-")]_vars

C7_Witness ==
    /\ ev.op = "get_attachments"
    /\ ev.result = "FileNotFoundError"
    /\ tokenFile.st = "none" /\ creds = NoCred

\* C8: revoke_token() for a credential with a refresh token: on status 200 or
\* 400 it returns True and clears creds and service, and a further call then
\* returns True whatever the provider would answer; on any other status or a
\* network error it returns False and leaves creds and service as they were.
C8_RevokeConfirmsOrKeeps ==
    [][\A u \in Users, st \in RevokeStatuses, rm \in Outcomes, c \in Outcomes :
         (DisconnectGmail(u, st, rm, c) /\ RevokePosts(creds)) =>
            IF st \in {200, 400}
            THEN /\ ev'.revoke = "true"
                 /\ creds' = NoCred /\ service' = "none"
                 /\ \A st2 \in RevokeStatuses : RevokeResult(creds', st2)
            ELSE /\ ev'.revoke = "false"
                 /\ creds' = creds /\ service' = service]_vars

C8_Witness ==
    /\ ev.op = "disconnect_gmail"
    /\ ev.revoke = "true" /\ ev.net = 1
    /\ creds = NoCred /\ service = "none"

\* --- authorization flow, continued
\* C11: a callback whose code exchange fails ends with ExchangeFailed and
\* leaves the token file, the held credential and service and the session as
\* they were; the session's gmail_authenticated flag is only ever set by a
\* callback whose exchange succeeded.
C11_ExchangeFailureChangesNothing ==
    [][/\ \A u \in Users, req \in Hosts, got \in {None} \cup StateTokens :
            (OAuth2Callback(u, req, got, "exch_fail")
               /\ ~StateMismatch(session[u].oauth_state, got))
            => /\ ev'.result = "ExchangeFailed"
               /\ UNCHANGED <<tokenFile, creds, service, session>>
       /\ \A u \in Users :
            (session'[u].gmail_authenticated /\ ~session[u].gmail_authenticated)
            => (ev'.op = "oauth2callback" /\ ev'.exchanged /\ ev'.result = "ok")]_vars

C11_Witness ==
    /\ ev.op = "oauth2callback"
    /\ ev.result = "ExchangeFailed"
    /\ tokenFile.st = "ok" /\ creds # NoCred
    /\ \E u \in Users : session[u].gmail_authenticated

\* --- search and extraction
\* C12: a search the provider answered with an error does not end the way a
\* search that matched no message ends ("No emails found").
C12_SearchFailureDistinct ==
    (ev.op = "search" /\ ev.api = "HttpError") => ev.result \notin {"NoEmails", "ok"}

\* C13: every descriptor get_attachments has yielded carries 'data' (inline,
\* or fetched through its attachment id).
C13_DescriptorHasPayload ==
    \A i \in DOMAIN dl.atts : dl.atts[i].hasData

\* Candidate parts of message m that have a filename and a payload or reference.
AttachmentParts(m) ==
    {p \in DOMAIN Candidates(m) :
        Candidates(m)[p].filename # <<>> /\ Candidates(m)[p].body # "none"}

\* C14: when the part loop of a message has ended without a provider failure,
\* the descriptors are exactly those of the candidate parts with a filename
\* and a payload or reference, one each, in part order.
C14_ExactlyNamedParts ==
    (dl.pc = "materialize"
       /\ ~\E f \in dl.failed : f.kind = "extract" /\ f.msg = dl.mi)
    => /\ {dl.atts[i].part : i \in DOMAIN dl.atts} = AttachmentParts(mailbox[dl.mi])
       /\ \A i, j \in DOMAIN dl.atts : i < j => dl.atts[i].part < dl.atts[j].part

\* --- storage
\* C18: no two records, pending or committed, share a storage path.
C18_PathsDistinct ==
    LET rows == dbRows \o dbPending
    IN  \A i, j \in DOMAIN rows : i # j => rows[i].filepath # rows[j].filepath

\* --- delete route
\* C15: when the owner deletes an attachment and removing its file fails, the
\* record is deleted all the same (the commit itself succeeding).
C15_RecordDeletedDespiteFile ==
    [][\A u \in Users, i \in DOMAIN dbRows :
         (/\ Delete(u, i, "fail", "ok")
          /\ dbRows[i].user = u
          /\ \E f \in files : f.path = dbRows[i].filepath)
         => dbRows' = RemoveAt(dbRows, i)]_vars

\* --- durability of a batch
\* C19: when the batch ends, every record added for a materialized attachment
\* is a committed row, whatever the outcome of the final commit.
C19_PartialProgressDurable ==
    [][\A c \in Outcomes :
         Commit(c) => \A r \in Records : \E i \in DOMAIN dbRows' : dbRows'[i] = r]_vars

\* --- token lifecycle, continued
\* C20: authenticate() on a complete token file issues a refresh exchange
\* exactly when the loaded credential is expired and has a refresh token;
\* otherwise no token is issued and the credential it keeps is the loaded one,
\* with the token file as it was.
C20_NoRefreshUnlessExpired ==
    [][(ServiceCall /\ service = "none" /\ tokenFile.st = "ok") =>
         IF tokenFile.cred.tok \in expiredToks /\ tokenFile.cred.refresh
         THEN ev'.refresh \in {"ok", "fail"}
         ELSE /\ ev'.refresh = "-"
              /\ nextTok' = nextTok
              /\ creds' = tokenFile.cred
              /\ tokenFile' = tokenFile]_vars

C20_Witness ==
    /\ ev.op = "search" /\ ev.load = "ok" /\ ev.refresh = "-"
    /\ creds = tokenFile.cred /\ creds.refresh
    /\ creds.tok \notin expiredToks

\* --- sanitizer
\* The name of the part a record was made from.
InputName(r) == Candidates(mailbox[r.msg])[r.part].filename

\* C16: the sanitized name of a record contains none of < > : " / \ | ? *.
C16_NoForbiddenCharacter ==
    \A r \in Records : \A i \in DOMAIN r.filename :
        r.filename[i] \notin {"<", ">", ":", "\"", "/", "\\", "|", "?", "*"}

EndsWith(s, e) == Len(s) >= Len(e) /\ SubSeq(s, Len(s) - Len(e) + 1, Len(s)) = e

\* C17: the sanitized name of a record has at most 255 characters, and when
\* the name was longer than that it still ends with the whole extension.
C17_AtMostLimitKeepsExtension ==
    \A r \in Records :
        /\ Len(r.filename) <= 255
        /\ Len(InputName(r)) > 255 => EndsWith(r.filename, SplitExt(InputName(r)))

\* --- provider requests of extraction
\* C22: the part loop of get_attachments sends nothing to the provider: a
\* part with an attachment id is not fetched while the descriptors are built.
C22_ExtractSendsNothing ==
    (ev.op = "extract_part") => (ev.net = 0 /\ ev.api = "-")

\* --- disconnect
\* C23: disconnect_gmail removes the token file only when revoke_token() was
\* called and returned True; otherwise the file stays as it was.
C23_FileKeptUnlessRevoked ==
    [][\A u \in Users, st \in RevokeStatuses, rm \in Outcomes, c \in Outcomes :
         (/\ DisconnectGmail(u, st, rm, c)
          /\ tokenFile.st # "none"
          /\ creds = NoCred \/ ~RevokeResult(creds, st))
         => tokenFile' = tokenFile]_vars

\* --- users
\* C24: a user whose session is not marked authorized sends a search only
\* with a credential their own callback obtained, and their disconnect
\* neither revokes nor clears a credential, nor removes a token file, that
\* another user's callback obtained.
C24_UsersIsolated ==
    [][\A u \in Users :
         ~session[u].gmail_authenticated =>
           /\ ((\E ref \in Outcomes, api \in ApiOutcomes : GmailConnect(u, ref, api))
                  /\ ev'.api # "-")
              => creds'.by = u
           /\ (\E st \in RevokeStatuses, rm \in Outcomes, c \in Outcomes :
                  DisconnectGmail(u, st, rm, c))
              => /\ creds.by \notin {0, u} => (creds' = creds /\ ev'.net = 0)
                 /\ tokenFile.cred.by \notin {0, u} => tokenFile' = tokenFile]_vars

\* --- redirect target
\* C21: a callback that asks for the redirect target gmail_auth asked for, or
\* that arrives at the target the authorization URL carried, builds its Flow
\* with the redirect target the authorization URL carried.
C21_SameRedirect ==
    (/\ ev.op = "oauth2callback"
     /\ authUrl.redirect # NoUri
     /\ ev.requested \in {authUrl.requested, authUrl.redirect})
    => ev.redirect = authUrl.redirect

C21_Witness ==
    /\ ev.op = "oauth2callback" /\ ev.exchanged
    /\ ev.requested = authUrl.requested
    /\ authUrl.redirect # authUrl.requested
    /\ clientFile.web.listed /\ Len(clientFile.web.uris) > 1
    /\ authUrl.redirect # clientFile.web.uris[1]

====
